---- MODULE Spec2Model ----
(***************************************************************************)
(* The record model of intelmq/lib/message.py: Message (a dict subclass),  *)
(* its variants Event and Report, and MessageFactory.                       *)
(*                                                                         *)
(* A Python value is a record [k, s]: k = "str" with s the sequence of its *)
(* characters, or k = "none" for None.  A dict is the sequence of its      *)
(* <<key, value>> items in insertion order.                                *)
(***************************************************************************)
EXTENDS Integers, Sequences, FiniteSets, TLC

VARIABLES rec, other, last, out

vars == <<rec, other, last, out>>

-----------------------------------------------------------------------------
(* Python values *)

None == [k |-> "none", s |-> <<>>]

Str(chars) == [k |-> "str", s |-> chars]

IsStr(v) == v.k = "str"

\* str.lower() on the letters the model uses
LowerChar(c) ==
    CASE c = "A" -> "a"
      [] c = "E" -> "e"
      [] c = "F" -> "f"
      [] c = "M" -> "m"
      [] c = "N" -> "n"
      [] c = "R" -> "r"
      [] OTHER -> c

Lower(v) == Str([i \in 1..Len(v.s) |-> LowerChar(v.s[i])])

RECURSIVE LStrip(_)
LStrip(chars) ==
    IF chars # <<>> /\ Head(chars) = " " THEN LStrip(Tail(chars)) ELSE chars

RECURSIVE RStrip(_)
RStrip(chars) ==
    IF chars # <<>> /\ chars[Len(chars)] = " "
    THEN RStrip(SubSeq(chars, 1, Len(chars) - 1))
    ELSE chars

\* str.strip()
Strip(v) == Str(RStrip(LStrip(v.s)))

\* value is None or value in ["", "-", "N/A"]
IsEmptyValue(v) ==
    \/ v = None
    \/ v \in {Str(<<>>), Str(<<"-">>), Str(<<"N", "/", "A">>)}

EventName == Str(<<"E", "v", "e", "n", "t">>)
MessageName == Str(<<"M", "e", "s", "s", "a", "g", "e">>)
ReportName == Str(<<"R", "e", "p", "o", "r", "t">>)
FactoryName == Str(<<"M", "e", "s", "s", "a", "g", "e", "F", "a", "c", "t", "o", "r", "y">>)
JsonName == Str(<<"j", "s", "o", "n">>)
BogusName == Str(<<"F", "o", "o">>)

VALID_MESSSAGE_TYPES == {EventName, MessageName, ReportName}

\* the names getattr(intelmq.lib.message, name) resolves that are no record class
OtherModuleNames == {FactoryName, JsonName}

-----------------------------------------------------------------------------
(* dicts: sequences of <<key, value>> items, insertion ordered *)

DictKeys(d) == {d[i][1] : i \in 1..Len(d)}

HasKey(d, key) == \E i \in 1..Len(d) : d[i][1] = key

\* d[key], for a key of d
Get(d, key) == d[CHOOSE i \in 1..Len(d) : d[i][1] = key][2]

\* dict.__setitem__: a present key keeps its position, a new key goes last
DictSet(d, key, value) ==
    IF HasKey(d, key)
    THEN [i \in 1..Len(d) |-> IF d[i][1] = key THEN <<key, value>> ELSE d[i]]
    ELSE Append(d, <<key, value>>)

\* del d[key]
DictDel(d, key) == SelectSeq(d, LAMBDA it : it[1] # key)


-----------------------------------------------------------------------------
(* Type Registry: intelmq.lib.harmonization, used through sanitize/is_valid *)

IsDigits(chars) == chars # <<>> /\ \A i \in 1..Len(chars) : chars[i] \in {"1", "2"}

\* <Type>().sanitize(value): the canonical value, or None when not sanitizable
TypeSanitize(type, value) ==
    CASE type = "String" ->
            IF ~IsStr(value) \/ value.s = <<>> THEN None ELSE Strip(value)
      [] type = "DateTime" ->
            IF IsStr(value) /\ IsDigits(Strip(value).s) THEN Strip(value) ELSE None

\* <Type>().is_valid(value)
TypeIsValid(type, value) ==
    CASE type = "String" -> IsStr(value) /\ Len(value.s) > 0
      [] type = "DateTime" -> IsStr(value) /\ IsDigits(value.s)

\* DateTime().generate_datetime_now(): the clock's reading, already canonical
NowValues == {Str(<<"1">>)}

-----------------------------------------------------------------------------
(* Schema Store: the harmonization configuration, one section per variant *)

TagKey == "__type"
ObservationKey == "time.observation"

StringField == [type |-> "String", length |-> 2]
RawField == [type |-> "String", length |-> 2, regex |-> "a", iregex |-> "^a"]
TimeField == [type |-> "DateTime"]

\* harmonization[classname], by the name of the section
HarmonizationConfig(cfg) ==
    CASE cfg = "event" ->
            [key \in {"feed.name", "raw", ObservationKey} |->
                IF key = "raw" THEN RawField
                ELSE IF key = ObservationKey THEN TimeField ELSE StringField]
      [] cfg = "report" ->
            [key \in {"feed.name", "raw", ObservationKey} |->
                IF key = "raw" THEN RawField
                ELSE IF key = ObservationKey THEN TimeField ELSE StringField]
      [] cfg = "message" ->
            [key \in {"feed.name", ObservationKey} |->
                IF key = ObservationKey THEN TimeField ELSE StringField]

\* utils.load_configuration(HARMONIZATION_CONF_FILE): section name -> section
Harmonization ==
    << <<Lower(EventName), "event">>,
       <<Lower(MessageName), "message">>,
       <<Lower(ReportName), "report">> >>

\* re.search(pattern, text, flags) for the patterns of the schema
ReSearch(pattern, chars, ignorecase) ==
    LET a == IF ignorecase THEN {"a", "A"} ELSE {"a"} IN
    CASE pattern = "a" -> \E i \in 1..Len(chars) : chars[i] \in a
      [] pattern = "^a" -> chars # <<>> /\ chars[1] \in a

-----------------------------------------------------------------------------
(* Message: validation *)

\* Message.__is_valid_key
IsValidKey(r, key) == key \in DOMAIN HarmonizationConfig(r.cfg) \/ key = TagKey

\* Message.__get_type_config
GetTypeConfig(r, key) == HarmonizationConfig(r.cfg)[key]

\* the descriptor's checks of Message.__is_valid_value, after the key == '__type' exit
DescriptorAccepts(config, value) ==
    /\ TypeIsValid(config.type, value)
    /\ "length" \in DOMAIN config => Len(value.s) <= config.length
    /\ "regex" \in DOMAIN config => ReSearch(config.regex, value.s, FALSE)
    /\ "iregex" \in DOMAIN config => ReSearch(config.iregex, value.s, TRUE)

\* Message.__is_valid_value, its first component
IsValidValue(r, key, value) ==
    IF key = TagKey THEN TRUE ELSE DescriptorAccepts(GetTypeConfig(r, key), value)

\* Message.__sanitize_value
SanitizeValue(r, key, value) == TypeSanitize(GetTypeConfig(r, key).type, value)

\* Message.is_valid: "True", "False", or the exception raised
IsValidResult(r, key, value, sanitize) ==
    IF ~IsValidKey(r, key) THEN "InvalidKey"
    ELSE IF IsEmptyValue(value) THEN "False"
    ELSE IF sanitize /\ key \notin DOMAIN HarmonizationConfig(r.cfg) THEN "KeyError"
    ELSE LET v == IF sanitize THEN SanitizeValue(r, key, value) ELSE value IN
         IF IsValidValue(r, key, v) THEN "True" ELSE "False"

-----------------------------------------------------------------------------
(* Message.add: the record after the call and what the call returned/raised *)

InSeq(value, seq) == \E i \in 1..Len(seq) : seq[i] = value

Truthy(ret) == ret = "True"

Raised(ret) == ret \notin {"True", "False", "None", "Ok"}

\* add, lines 196-198: the value after the optional sanitation
AddSanitized(r, key, value, sanitize) ==
    IF sanitize /\ key # TagKey THEN SanitizeValue(r, key, value) ELSE value

\* AddValidated without the __is_valid_value check
AddUnvalidated(r, key, v, sanitize, raise_failure) ==
    IF sanitize /\ key # TagKey /\ v = None
    THEN [rec |-> r, ret |-> IF raise_failure THEN "InvalidValue" ELSE "False"]
    ELSE [rec |-> [r EXCEPT !.items = DictSet(r.items, key, v)], ret |-> "True"]

\* AddTo with the empty-value exit taken before the KeyExists check
AddEmptyFirst(r, key, value, sanitize, overwrite, ignore, raise_failure) ==
    IF IsEmptyValue(value)
    THEN [rec |-> IF overwrite /\ HasKey(r.items, key)
                  THEN [r EXCEPT !.items = DictDel(r.items, key)] ELSE r,
          ret |-> "None"]
    ELSE IF ~overwrite /\ HasKey(r.items, key) THEN [rec |-> r, ret |-> "KeyExists"]
    ELSE IF ~IsValidKey(r, key) THEN [rec |-> r, ret |-> "InvalidKey"]
    ELSE IF InSeq(value, ignore) THEN [rec |-> r, ret |-> "None"]
    ELSE IF sanitize /\ key # TagKey /\ SanitizeValue(r, key, value) = None
    THEN [rec |-> r, ret |-> IF raise_failure THEN "InvalidValue" ELSE "False"]
    ELSE IF ~IsValidValue(r, key, IF sanitize /\ key # TagKey
                                  THEN SanitizeValue(r, key, value) ELSE value)
    THEN [rec |-> r, ret |-> IF raise_failure THEN "InvalidValue" ELSE "False"]
    ELSE [rec |-> [r EXCEPT !.items =
                      DictSet(r.items, key, IF sanitize /\ key # TagKey
                                            THEN SanitizeValue(r, key, value) ELSE value)],
          ret |-> "True"]

\* add, lines 199-213: validate the (sanitized) value v and store it
AddValidated(r, key, v, sanitize, raise_failure) ==
    IF sanitize /\ key # TagKey /\ v = None
    THEN [rec |-> r, ret |-> IF raise_failure THEN "InvalidValue" ELSE "False"]
    ELSE IF ~IsValidValue(r, key, v)
    THEN [rec |-> r, ret |-> IF raise_failure THEN "InvalidValue" ELSE "False"]
    ELSE [rec |-> [r EXCEPT !.items = DictSet(r.items, key, v)], ret |-> "True"]

AddTo(r, key, value, sanitize, overwrite, ignore, raise_failure) ==
    IF ~overwrite /\ HasKey(r.items, key) THEN [rec |-> r, ret |-> "KeyExists"]
    ELSE IF IsEmptyValue(value)
    THEN [rec |-> IF overwrite /\ HasKey(r.items, key)
                  THEN [r EXCEPT !.items = DictDel(r.items, key)] ELSE r,
          ret |-> "None"]
    ELSE IF ~IsValidKey(r, key) THEN [rec |-> r, ret |-> "InvalidKey"]
    ELSE IF InSeq(value, ignore) THEN [rec |-> r, ret |-> "None"]
    ELSE AddValidated(r, key, AddSanitized(r, key, value, sanitize), sanitize, raise_failure)

\* Message.__setitem__
SetItem(r, key, value) == AddTo(r, key, value, TRUE, FALSE, <<>>, TRUE)

\* del self[key]
DelItem(r, key) == [r EXCEPT !.items = DictDel(r.items, key)]

-----------------------------------------------------------------------------
(* Construction.  A record is [cls, cfg, items]: its class name, the       *)
(* section it holds as harmonization_config, and its dict contents.        *)

NoRecord == [cls |-> None, cfg |-> "", items |-> <<>>]

Failed(ret) == [rec |-> NoRecord, ret |-> ret]

\* the loop of Message.__init__ (overwrite = FALSE) and of Message.update
\* (overwrite = TRUE): unsanitized add first, the sanitized add when it is falsy
RECURSIVE AddItems(_, _, _)
RECURSIVE AfterUnsanitized(_, _, _)
RECURSIVE AfterSanitized(_, _, _)
AddItems(r, items, overwrite) ==
    IF items = <<>> THEN [rec |-> r, ret |-> "Ok"]
    ELSE AfterUnsanitized(
            AddTo(r, Head(items)[1], Head(items)[2], FALSE, overwrite, <<>>, FALSE),
            items, overwrite)

\* AfterUnsanitized without the test of the first add's result: the sanitized
\* add always follows
AlwaysSanitized(first, items, overwrite) ==
    IF Raised(first.ret) THEN first
    ELSE AfterSanitized(
            AddTo(first.rec, Head(items)[1], Head(items)[2], TRUE, overwrite, <<>>, TRUE),
            items, overwrite)

\* what follows self.add(key, value, sanitize=False, raise_failure=False)
AfterUnsanitized(first, items, overwrite) ==
    IF Raised(first.ret) THEN first
    ELSE IF Truthy(first.ret) THEN AddItems(first.rec, Tail(items), overwrite)
    ELSE AfterSanitized(
            AddTo(first.rec, Head(items)[1], Head(items)[2], TRUE, overwrite, <<>>, TRUE),
            items, overwrite)

\* what follows self.add(key, value, sanitize=True)
AfterSanitized(second, items, overwrite) ==
    IF Raised(second.ret) THEN second
    ELSE AddItems(second.rec, Tail(items), overwrite)

\* a constructor's outcome: the object, or nothing when the loop raised
Constructed(filled) == IF Raised(filled.ret) THEN Failed(filled.ret) ELSE filled

\* Message.__init__, lines 89-93: the section name
ClassName(cls, message) ==
    IF HasKey(message, TagKey) THEN Lower(Get(message, TagKey)) ELSE Lower(cls)

\* Message.__init__, lines 95-116, for the section named classname
MessageInitIn(cls, classname, message, harmonization) ==
    IF ~HasKey(harmonization, classname) THEN Failed("InvalidArgument")
    ELSE Constructed(
            AddItems([cls |-> cls, cfg |-> Get(harmonization, classname), items |-> <<>>],
                     DictDel(message, TagKey), FALSE))

\* Message.__init__ for a dict message
MessageInit(cls, message, harmonization) ==
    IF HasKey(message, TagKey) /\ ~IsStr(Get(message, TagKey))
    THEN Failed("AttributeError")
    ELSE MessageInitIn(cls, ClassName(cls, message), message, harmonization)

\* Report.__init__, lines 409-411, after Message.__init__ made base
ReportStamp(base, auto, now) ==
    IF Raised(base.ret) THEN base
    ELSE IF ~auto /\ ~HasKey(base.rec.items, ObservationKey)
    THEN Constructed(AddTo(base.rec, ObservationKey, now, FALSE, FALSE, <<>>, TRUE))
    ELSE base

\* Report.__init__
ReportInit(message, auto, harmonization, now) ==
    ReportStamp(MessageInit(ReportName, message, harmonization), auto, now)

\* the fields Event.__init__ takes from a Report, in the order it takes them
TemplateKeys ==
    <<"feed.accuracy", "feed.code", "feed.documentation", "feed.name",
      "feed.provider", "feed.url", "rtir_id", ObservationKey>>

\* Event.__init__, isinstance(message, Report): the template dict
Template(report) ==
    LET present == SelectSeq(TemplateKeys, LAMBDA key : HasKey(report.items, key))
    IN  [i \in 1..Len(present) |-> <<present[i], Get(report.items, present[i])>>]

\* Event.__init__
EventInit(message, harmonization) == MessageInit(EventName, message, harmonization)

EventFromReport(report, harmonization) == EventInit(Template(report), harmonization)

\* class_reference(message, auto, harmonization) for the three record classes
Construct(cls, message, auto, harmonization, now) ==
    CASE cls = EventName -> EventInit(message, harmonization)
      [] cls = ReportName -> ReportInit(message, auto, harmonization, now)
      [] cls = MessageName -> MessageInit(MessageName, message, harmonization)

\* {self.__class__.__name__.lower(): self.harmonization_config}
OwnHarmonization(r) == << <<Lower(r.cls), r.cfg>> >>

-----------------------------------------------------------------------------
(* Message.update, Message.change *)

Update(r, mapping) == AddItems(r, mapping, TRUE)

Change(r, key, value, sanitize) ==
    IF ~HasKey(r.items, key) THEN [rec |-> r, ret |-> "KeyNotExists"]
    ELSE AddTo(r, key, value, sanitize, TRUE, <<>>, TRUE)

-----------------------------------------------------------------------------
(* Wire Codec and MessageFactory *)

\* json.dumps / json.loads of one value
JsonEncode(value) ==
    IF IsStr(value) THEN [j |-> "string", text |-> value.s] ELSE [j |-> "null", text |-> <<>>]

JsonDecode(json) == IF json.j = "string" THEN Str(json.text) ELSE None

JsonDumps(d) == [i \in 1..Len(d) |-> <<d[i][1], JsonEncode(d[i][2])>>]

\* Message.unserialize
JsonLoads(text) == [i \in 1..Len(text) |-> <<text[i][1], JsonDecode(text[i][2])>>]

\* serialize, lines 248-250, after self['__type'] = ... gave tagged
Serialized(r, tagged) ==
    IF Raised(tagged.ret) THEN [self |-> r, out |-> <<>>, ret |-> tagged.ret]
    ELSE [self |-> DelItem(tagged.rec, TagKey),
          out |-> JsonDumps(tagged.rec.items), ret |-> "Ok"]

\* Message.serialize: [self, out, ret]
Serialize(r) == Serialized(r, SetItem(r, TagKey, r.cls))

\* the truth value of a str or None
PyTrue(value) == IsStr(value) /\ value.s # <<>>

\* from_dict, lines 46-54, for the message with its default tag set
FromTagged(tagged, harmonization) ==
    IF ~HasKey(tagged, TagKey) THEN Failed("KeyError")
    ELSE IF ~IsStr(Get(tagged, TagKey)) THEN Failed("TypeError")
    ELSE IF Get(tagged, TagKey) \in VALID_MESSSAGE_TYPES
    THEN Construct(Get(tagged, TagKey), DictDel(tagged, TagKey), TRUE, harmonization, None)
    ELSE IF Get(tagged, TagKey) \in OtherModuleNames THEN Failed("TypeError")
    ELSE Failed("InvalidArgument")

\* MessageFactory.from_dict; default_type is None or a str
FromDict(message, harmonization, default_type) ==
    FromTagged(IF PyTrue(default_type) /\ ~HasKey(message, TagKey)
               THEN DictSet(message, TagKey, default_type) ELSE message,
               harmonization)

\* MessageFactory.unserialize
Unserialize(text, harmonization, default_type) ==
    FromDict(JsonLoads(text), harmonization, default_type)

\* deep_copy: the record MessageFactory.unserialize made of the wire text
Unserialized(self, back) == [self |-> self, out |-> back.rec, ret |-> back.ret]

DeepCopied(r, wire) ==
    IF Raised(wire.ret) THEN [self |-> wire.self, out |-> NoRecord, ret |-> wire.ret]
    ELSE Unserialized(wire.self, Unserialize(wire.out, OwnHarmonization(r), None))

\* Message.deep_copy: [self, out, ret]
DeepCopy(r) == DeepCopied(r, Serialize(r))

\* copy, lines 236-237, after the constructor gave retval
CopyBuilt(self, retval) ==
    IF Raised(retval.ret) THEN [self |-> self, out |-> NoRecord, ret |-> retval.ret]
    ELSE [self |-> DelItem(self, TagKey), out |-> retval.rec, ret |-> "Ok"]

\* copy, lines 233-237, after self['__type'] = class_ref gave tagged
CopyTagged(r, tagged, now) ==
    IF Raised(tagged.ret) THEN [self |-> r, out |-> NoRecord, ret |-> tagged.ret]
    ELSE CopyBuilt(tagged.rec,
                   Construct(r.cls, tagged.rec.items, FALSE, OwnHarmonization(r), now))

\* Message.copy: [self, out, ret]
MessageCopy(r, now) == CopyTagged(r, SetItem(r, TagKey, r.cls), now)

\* Report.copy, lines 415-417, after Message.copy gave c
StripObservation(c) ==
    IF ~Raised(c.ret) /\ HasKey(c.out.items, ObservationKey)
                      /\ ~HasKey(c.self.items, ObservationKey)
    THEN [c EXCEPT !.out = DelItem(c.out, ObservationKey)]
    ELSE c

\* Report.copy
ReportCopy(r, now) == StripObservation(MessageCopy(r, now))

\* r.copy(), by the class of r
Copy(r, now) == IF r.cls = ReportName THEN ReportCopy(r, now) ELSE MessageCopy(r, now)

-----------------------------------------------------------------------------
(* Message.to_dict *)

\* key.split('.') for the keys of the model
Split(key) ==
    CASE key = "feed.name" -> <<"feed", "name">>
      [] key = ObservationKey -> <<"time", "observation">>
      [] OTHER -> <<key>>

\* the inner loop of to_dict: store value under the path subkeys of json_dict
RECURSIVE NestedSet(_, _, _, _)
NestedSet(json_dict, subkeys, final, value) ==
    LET subkey == Head(subkeys) IN
    IF subkey = final THEN DictSet(json_dict, subkey, value)
    ELSE LET child == IF HasKey(json_dict, subkey) THEN Get(json_dict, subkey) ELSE <<>>
         IN  DictSet(json_dict, subkey, NestedSet(child, Tail(subkeys), final, value))

RECURSIVE ToDictItems(_, _, _)
ToDictItems(json_dict, items, hierarchical) ==
    IF items = <<>> THEN json_dict
    ELSE LET key == Head(items)[1]
             subkeys == IF hierarchical THEN Split(key) ELSE <<key>>
         IN  ToDictItems(NestedSet(json_dict, subkeys, subkeys[Len(subkeys)], Head(items)[2]),
                         Tail(items), hierarchical)

\* to_dict, lines 336-356, after the optional self['__type'] = ... gave tagged
ToDictTagged(r, tagged, hierarchical, with_type) ==
    IF Raised(tagged.ret) THEN [self |-> r, out |-> <<>>, ret |-> tagged.ret]
    ELSE [self |-> IF with_type THEN DelItem(tagged.rec, TagKey) ELSE r,
          out |-> ToDictItems(<<>>, tagged.rec.items, hierarchical), ret |-> "Ok"]

\* Message.to_dict: [self, out, ret]
ToDict(r, hierarchical, with_type) ==
    ToDictTagged(r, IF with_type THEN SetItem(r, TagKey, r.cls)
                    ELSE [rec |-> r, ret |-> "True"],
                 hierarchical, with_type)

-----------------------------------------------------------------------------
(* Message.hash *)

\* the keys of the model in the order of Python's str comparison
KeyOrder == <<"__type", "bogus", "feed.name", "raw", ObservationKey>>

KeyRank(key) == CHOOSE i \in 1..Len(KeyOrder) : KeyOrder[i] = key

\* Sorted without the sort: the items in insertion order
Unsorted(d) == d

\* sorted(self.items()): keys are unique, so the key alone orders the items
Sorted(d) ==
    [i \in 1..Len(d) |->
        d[CHOOSE j \in 1..Len(d) :
            Cardinality({n \in 1..Len(d) : KeyRank(d[n][1]) < KeyRank(d[j][1])}) = i - 1]]

\* repr(value) of a str
Repr(value) == <<"'">> \o value.s \o <<"'">>

\* whether the loop of hash() feeds the item of this key to the digest
Hashed(key, filter_keys, filter_type) ==
    /\ key # ObservationKey
    /\ ~(filter_type = "whitelist" /\ key \notin filter_keys)
    /\ ~(filter_type = "blacklist" /\ key \in filter_keys)

\* the bytes fed to the SHA-256 context, a token per update() call
RECURSIVE HashStream(_, _, _)
HashStream(items, filter_keys, filter_type) ==
    IF items = <<>> THEN <<>>
    ELSE LET key == Head(items)[1]
             rest == HashStream(Tail(items), filter_keys, filter_type)
         IN  IF Hashed(key, filter_keys, filter_type)
             THEN <<key, "\\xc0", Repr(Head(items)[2]), "\\xc0">> \o rest
             ELSE rest

\* Message.hash: the digest stands for the byte stream it was computed from
\* (SHA-256 taken as collision free)
Hash(r, filter_keys, filter_type) ==
    IF filter_type \notin {"whitelist", "blacklist"}
    THEN [out |-> <<>>, ret |-> "InvalidArgument"]
    ELSE [out |-> HashStream(Sorted(r.items), filter_keys, filter_type), ret |-> "Ok"]

-----------------------------------------------------------------------------
(* Inputs *)

MaxMapLen == 2

\* the (key, value) arguments of add, change and is_valid
PairsIn ==
    ({"feed.name"} \X
        {None, Str(<<>>), Str(<<"-">>), Str(<<"N", "/", "A">>), Str(<<" ", "-">>),
         Str(<<"a">>), Str(<<" ", "a">>), Str(<<"A">>), Str(<<"a", "a", "a">>)})
    \cup ({"raw"} \X
        {Str(<<"a">>), Str(<<" ", "a">>), Str(<<"A">>), Str(<<"a", "a", "a">>)})
    \cup ({ObservationKey} \X {None, Str(<<"1">>), Str(<<" ", "a">>)})
    \cup ({"bogus"} \X {Str(<<>>), Str(<<"a">>)})
    \cup ({TagKey} \X {None, EventName})

IgnoreIn == {<<>>, <<Str(<<"a">>)>>}

\* the items of the dicts given to the constructors, update and from_dict
MapPairs ==
    {<<"feed.name", Str(<<" ", "a">>)>>, <<"feed.name", Str(<<"-">>)>>,
     <<"raw", Str(<<"A">>)>>, <<"raw", Str(<<" ", "a">>)>>,
     <<ObservationKey, Str(<<"1">>)>>, <<"bogus", Str(<<"a">>)>>}

RECURSIVE DictsUpTo(_)
DictsUpTo(n) ==
    IF n = 0 THEN {<<>>}
    ELSE LET shorter == DictsUpTo(n - 1)
         IN  shorter \cup {Append(d, p) : d \in shorter, p \in MapPairs}

\* dicts: no key twice
MappingsIn == {d \in DictsUpTo(MaxMapLen) : Cardinality(DictKeys(d)) = Len(d)}

ClassesIn == {EventName, MessageName, ReportName}

\* the type tag of a wire payload: absent (None here), or a name
TagsIn == ClassesIn \cup {FactoryName, JsonName, BogusName, None}

DefaultTypesIn == {None, EventName, BogusName}

FilterKeysIn == SUBSET {"feed.name", ObservationKey}

FilterTypesIn == {"whitelist", "blacklist", "greylist"}

-----------------------------------------------------------------------------
(* State: rec is the record the caller holds; last is the call that just   *)
(* returned (op "idle" between calls), other the record it returned, out   *)
(* any other value it returned.                                            *)

Idle ==
    [op |-> "idle", key |-> "", value |-> None, sanitize |-> FALSE,
     overwrite |-> FALSE, arg |-> <<>>, ret |-> "None"]

Call(op, ret) == [Idle EXCEPT !.op = op, !.ret = ret]

Ready == last.op = "idle" /\ rec # NoRecord

Init ==
    /\ \E cls \in ClassesIn, auto \in BOOLEAN, now \in NowValues :
          rec = Construct(cls, <<>>, auto, Harmonization, now).rec
    /\ other = NoRecord
    /\ last = Idle
    /\ out = <<>>

\* cls(message, auto=auto, harmonization=harmonization)
New(cls, message, auto, now) ==
    /\ last.op = "idle"
    /\ LET made == Construct(cls, message, auto, Harmonization, now) IN
       /\ rec' = IF Raised(made.ret) THEN rec ELSE made.rec
       /\ last' = [Call("new", made.ret) EXCEPT !.arg = message, !.value = cls]
    /\ UNCHANGED <<other, out>>

\* MessageFactory.from_dict(message, harmonization, default_type)
FromMapping(message, tag, default_type) ==
    /\ last.op = "idle"
    /\ LET payload == IF tag = None THEN message ELSE Append(message, <<TagKey, tag>>)
           made == FromDict(payload, Harmonization, default_type)
       IN  /\ rec' = IF Raised(made.ret) THEN rec ELSE made.rec
           /\ last' = [Call("from_dict", made.ret) EXCEPT !.arg = payload,
                                                          !.value = default_type]
    /\ UNCHANGED <<other, out>>

\* rec.add(key, value, sanitize, overwrite, ignore, raise_failure)
Add(key, value, sanitize, overwrite, ignore, raise_failure) ==
    /\ Ready
    /\ LET done == AddTo(rec, key, value, sanitize, overwrite, ignore, raise_failure) IN
       /\ rec' = done.rec
       /\ last' = [op |-> "add", key |-> key, value |-> value, sanitize |-> sanitize,
                   overwrite |-> overwrite, arg |-> ignore, ret |-> done.ret]
    /\ UNCHANGED <<other, out>>

\* rec.is_valid(key, value, sanitize)
IsValid(key, value, sanitize) ==
    /\ Ready
    /\ last' = [Call("is_valid", IsValidResult(rec, key, value, sanitize))
                    EXCEPT !.key = key, !.value = value, !.sanitize = sanitize]
    /\ UNCHANGED <<rec, other, out>>

\* rec.change(key, value, sanitize)
ChangeOp(key, value, sanitize) ==
    /\ Ready
    /\ LET done == Change(rec, key, value, sanitize) IN
       /\ rec' = done.rec
       /\ last' = [Call("change", done.ret)
                      EXCEPT !.key = key, !.value = value, !.sanitize = sanitize,
                             !.overwrite = TRUE]
    /\ UNCHANGED <<other, out>>

\* rec.update(mapping)
UpdateOp(mapping) ==
    /\ Ready
    /\ LET done == Update(rec, mapping) IN
       /\ rec' = done.rec
       /\ last' = [Call("update", done.ret) EXCEPT !.arg = mapping]
    /\ UNCHANGED <<other, out>>

\* rec.copy()
CopyOp(now) ==
    /\ Ready
    /\ LET done == Copy(rec, now) IN
       /\ rec' = done.self
       /\ other' = done.out
       /\ last' = Call("copy", done.ret)
    /\ UNCHANGED out

\* rec.deep_copy()
DeepCopyOp ==
    /\ Ready
    /\ LET done == DeepCopy(rec) IN
       /\ rec' = done.self
       /\ other' = done.out
       /\ last' = Call("deep_copy", done.ret)
    /\ UNCHANGED out

\* rec.serialize()
SerializeOp ==
    /\ Ready
    /\ LET done == Serialize(rec) IN
       /\ rec' = done.self
       /\ out' = done.out
       /\ last' = Call("serialize", done.ret)
    /\ UNCHANGED other

\* rec.to_dict(hierarchical, with_type)
ToDictOp(hierarchical, with_type) ==
    /\ Ready
    /\ LET done == ToDict(rec, hierarchical, with_type) IN
       /\ rec' = done.self
       /\ out' = done.out
       /\ last' = [Call("to_dict", done.ret) EXCEPT !.sanitize = with_type]
    /\ UNCHANGED other

\* rec.hash(filter_keys=filter_keys, filter_type=filter_type)
HashOp(filter_keys, filter_type) ==
    /\ Ready
    /\ LET done == Hash(rec, filter_keys, filter_type) IN
       /\ out' = done.out
       /\ last' = [Call("hash", done.ret) EXCEPT !.arg = <<filter_keys, filter_type>>]
    /\ UNCHANGED <<rec, other>>

\* Event(rec, harmonization=harmonization) for a Report rec: Bot.new_event(report)
NewEvent ==
    /\ Ready
    /\ rec.cls = ReportName
    /\ LET made == EventFromReport(rec, Harmonization) IN
       /\ other' = made.rec
       /\ last' = Call("new_event", made.ret)
    /\ UNCHANGED <<rec, out>>

\* the caller takes the result and goes on with the record it held
Return ==
    /\ last.op # "idle"
    /\ last' = Idle
    /\ other' = NoRecord
    /\ out' = <<>>
    /\ UNCHANGED rec

\* the caller goes on with the record the call returned
Continue ==
    /\ last.op # "idle"
    /\ other # NoRecord
    /\ rec' = other
    /\ last' = Idle
    /\ other' = NoRecord
    /\ out' = <<>>

Next ==
    \/ \E cls \in ClassesIn, message \in MappingsIn :
          \E auto \in IF cls = ReportName THEN BOOLEAN ELSE {FALSE} :
             \E now \in IF cls = ReportName /\ ~auto THEN NowValues ELSE {None} :
                New(cls, message, auto, now)
    \/ \E message \in MappingsIn, tag \in TagsIn, default_type \in DefaultTypesIn :
          /\ message = <<>> \/ (tag \in ClassesIn /\ default_type = None)
          /\ FromMapping(message, tag, default_type)
    \/ \E p \in PairsIn, sanitize \in BOOLEAN, overwrite \in BOOLEAN :
          \E ignore \in IgnoreIn, raise_failure \in BOOLEAN :
             /\ ignore = <<>> \/ (raise_failure /\ InSeq(p[2], ignore))
             /\ Add(p[1], p[2], sanitize, overwrite, ignore, raise_failure)
    \/ \E p \in PairsIn, sanitize \in BOOLEAN : IsValid(p[1], p[2], sanitize)
    \/ \E p \in PairsIn, sanitize \in BOOLEAN : ChangeOp(p[1], p[2], sanitize)
    \/ \E mapping \in MappingsIn : UpdateOp(mapping)
    \/ \E now \in IF rec.cls = ReportName THEN NowValues ELSE {None} : CopyOp(now)
    \/ DeepCopyOp
    \/ SerializeOp
    \/ \E hierarchical \in BOOLEAN, with_type \in BOOLEAN : ToDictOp(hierarchical, with_type)
    \/ \E filter_keys \in FilterKeysIn, filter_type \in FilterTypesIn :
          HashOp(filter_keys, filter_type)
    \/ NewEvent
    \/ Return
    \/ Continue

Spec == Init /\ [][Next]_vars

-----------------------------------------------------------------------------
(* Two records side by side, for hash(): rec and other are both held by the  *)
(* caller, filled by add in any order, and hashed with the same filter.      *)

HashPairsIn ==
    {<<"feed.name", Str(<<"a">>)>>, <<"feed.name", Str(<<"A">>)>>, <<"raw", Str(<<"a">>)>>,
     <<ObservationKey, Str(<<"1">>)>>, <<ObservationKey, Str(<<"2">>)>>,
     <<"feed.name", None>>, <<"raw", None>>}

HashFilterKeysIn == SUBSET {"feed.name", "raw", ObservationKey}

InitHash ==
    /\ rec = Construct(EventName, <<>>, FALSE, Harmonization, None).rec
    /\ other = Construct(EventName, <<>>, FALSE, Harmonization, None).rec
    /\ last = Idle
    /\ out = <<>>

\* rec.add(key, value, overwrite=overwrite)
AddFirst(key, value, overwrite) ==
    /\ last.op = "idle"
    /\ rec' = AddTo(rec, key, value, TRUE, overwrite, <<>>, TRUE).rec
    /\ UNCHANGED <<other, last, out>>

\* other.add(key, value, overwrite=overwrite)
AddSecond(key, value, overwrite) ==
    /\ last.op = "idle"
    /\ other' = AddTo(other, key, value, TRUE, overwrite, <<>>, TRUE).rec
    /\ UNCHANGED <<rec, last, out>>

\* rec.hash(...) and other.hash(...) with the same filter_keys and filter_type
HashBoth(filter_keys, filter_type) ==
    /\ last.op = "idle"
    /\ out' = <<Hash(rec, filter_keys, filter_type).out,
                Hash(other, filter_keys, filter_type).out>>
    /\ last' = [Call("hash", Hash(rec, filter_keys, filter_type).ret)
                   EXCEPT !.arg = <<filter_keys, filter_type>>]
    /\ UNCHANGED <<rec, other>>

\* the caller takes the two digests
HashReturn ==
    /\ last.op = "hash"
    /\ last' = Idle
    /\ out' = <<>>
    /\ UNCHANGED <<rec, other>>

NextHash ==
    \/ \E p \in HashPairsIn, overwrite \in BOOLEAN : AddFirst(p[1], p[2], overwrite)
    \/ \E p \in HashPairsIn, overwrite \in BOOLEAN : AddSecond(p[1], p[2], overwrite)
    \/ \E filter_keys \in HashFilterKeysIn, filter_type \in FilterTypesIn :
          HashBoth(filter_keys, filter_type)
    \/ HashReturn

SpecHash == InitHash /\ [][NextHash]_vars

-----------------------------------------------------------------------------
(* Properties *)

\* the records of a state
Records == {r \in {rec, other} : r # NoRecord}

Items(r) == {r.items[i] : i \in 1..Len(r.items)}

\* a value is valid per the descriptor of its key in the schema of record r
ValidPerDescriptor(r, key, value) ==
    /\ key \in DOMAIN HarmonizationConfig(r.cfg)
    /\ LET config == HarmonizationConfig(r.cfg)[key] IN
       /\ TypeIsValid(config.type, value)
       /\ "length" \in DOMAIN config => Len(value.s) <= config.length
       /\ "regex" \in DOMAIN config => ReSearch(config.regex, value.s, FALSE)
       /\ "iregex" \in DOMAIN config => ReSearch(config.iregex, value.s, TRUE)

\* C1: in every reachable state, every field stored in a record (every item but
\* the type tag, which has no descriptor) has a key of the record's own schema
\* section and a value that the type's is_valid accepts and that meets the
\* descriptor's length, regex and iregex.
C1_StoredValuesValid ==
    \A r \in Records : \A it \in Items(r) :
        it[1] # TagKey => ValidPerDescriptor(r, it[1], it[2])

\* C1 witness: add stored a sanitized value under the constrained descriptor of
\* "raw", the raw value itself being invalid for it.
C1_Witness ==
    /\ last.op = "add" /\ last.ret = "True" /\ last.key = "raw" /\ last.sanitize
    /\ ~ValidPerDescriptor(rec, "raw", last.value)
    /\ HasKey(rec.items, "raw") /\ Get(rec.items, "raw") # last.value

\* C2: a step add(key, value, overwrite=False) on a key the record holds raises
\* KeyExists and leaves the record as it was, whatever the value.
C2_AddExistingKeyConflicts ==
    [][(last'.op = "add" /\ ~last'.overwrite /\ HasKey(rec.items, last'.key))
          => (last'.ret = "KeyExists" /\ rec' = rec)]_vars

\* C2 witness: add without overwrite of an empty value on a present key raised
\* KeyExists and the key kept its value.
C2_Witness ==
    /\ last.op = "add" /\ ~last.overwrite /\ last.ret = "KeyExists"
    /\ IsEmptyValue(last.value)
    /\ HasKey(rec.items, last.key)

\* C3: no record holds an empty value (None, "", "-", "N/A"), and add called
\* with an empty value returns None (or raises KeyExists) and leaves the key
\* absent.
C3_NoEmptyValueStored ==
    /\ \A r \in Records : \A it \in Items(r) : ~IsEmptyValue(it[2])
    /\ (last.op = "add" /\ IsEmptyValue(last.value))
          => /\ last.ret \in {"None", "KeyExists"}
             /\ last.ret = "None" => ~HasKey(rec.items, last.key)

\* two records hold the same keys with the same values
SameContent(a, b) ==
    /\ DictKeys(a.items) = DictKeys(b.items)
    /\ \A key \in DictKeys(a.items) : Get(a.items, key) = Get(b.items, key)

\* C4: deep_copy(), the round trip through serialize, unserialize and
\* from_dict, returns a record of the same class with the same keys and values.
C4_RoundTrip ==
    last.op = "deep_copy"
        => /\ last.ret = "Ok"
           /\ other.cls = rec.cls
           /\ SameContent(other, rec)

\* the (key, value) pairs that survive the filter of hash()
Surviving(r, filter_keys, filter_type) ==
    {it \in Items(r) :
        /\ it[1] # ObservationKey
        /\ filter_type = "whitelist" => it[1] \in filter_keys
        /\ filter_type = "blacklist" => it[1] \notin filter_keys}

\* C5: two records hashed with the same filter_keys and filter_type whose
\* surviving (key, value) pairs are the same set have the same hash, whatever
\* the insertion order and whatever their time.observation.
C5_HashOfSurvivingPairs ==
    (last.op = "hash" /\ last.ret = "Ok")
        => (Surviving(rec, last.arg[1], last.arg[2]) = Surviving(other, last.arg[1], last.arg[2])
               => out[1] = out[2])

\* C5 witness: two records with the same fields inserted in different orders
\* and different time.observation, hashed in whitelist mode with
\* time.observation among the filter keys.
C5_Witness ==
    /\ last.op = "hash" /\ last.ret = "Ok"
    /\ last.arg[2] = "whitelist" /\ last.arg[1] = {"feed.name", "raw", ObservationKey}
    /\ Len(rec.items) = 3 /\ Len(other.items) = 3
    /\ rec.items[1][1] = "raw" /\ other.items[1][1] = ObservationKey
    /\ Get(rec.items, ObservationKey) # Get(other.items, ObservationKey)
    /\ Surviving(rec, last.arg[1], last.arg[2]) = Surviving(other, last.arg[1], last.arg[2])
    /\ out[1] = out[2] /\ Len(out[1]) = 8

\* C6: Event(report) is an Event holding exactly the report's fields that are
\* in the template list, each with the report's value.
C6_EventFromReport ==
    last.op = "new_event"
        => /\ last.ret = "Ok"
           /\ other.cls = EventName
           /\ DictKeys(other.items) =
                 DictKeys(rec.items) \cap {TemplateKeys[i] : i \in 1..Len(TemplateKeys)}
           /\ \A key \in DictKeys(other.items) : Get(other.items, key) = Get(rec.items, key)

\* C7: when add(key, value, sanitize) returned True, is_valid(key, value,
\* sanitize) on the record returns True, and the record holds the sanitized
\* value if sanitize was requested, else the value itself.
C7_AcceptedIsValid ==
    (last.op = "add" /\ last.ret = "True")
        => /\ IsValidResult(rec, last.key, last.value, last.sanitize) = "True"
           /\ Get(rec.items, last.key) =
                 IF last.sanitize THEN SanitizeValue(rec, last.key, last.value)
                 ELSE last.value

\* the type tag from_dict resolves: the payload's, else the default
ResolvedTag(payload, default_type) ==
    IF HasKey(payload, TagKey) THEN Get(payload, TagKey) ELSE default_type

\* C8: from_dict raises InvalidArgument when the payload has no type tag and no
\* default is given, or when the tag is none of "Event", "Message", "Report";
\* it returns a record only for those three.
C8_UnknownVariantRejected ==
    last.op = "from_dict"
        => /\ ((~HasKey(last.arg, TagKey) /\ ~PyTrue(last.value))
                 \/ ResolvedTag(last.arg, last.value) \notin VALID_MESSSAGE_TYPES)
              => last.ret = "InvalidArgument"
           /\ ~Raised(last.ret)
              => ResolvedTag(last.arg, last.value) \in VALID_MESSSAGE_TYPES

\* C9: between calls, the keys of a record are keys of its schema section, and
\* the type tag is not among them.
C9_KeysOfSchemaNoTag ==
    \A r \in Records :
        /\ DictKeys(r.items) \subseteq DOMAIN HarmonizationConfig(r.cfg)
        /\ ~HasKey(r.items, TagKey)

\* C10: copy() returns a record of the same class with the same keys and
\* values as the record copied.
C10_CopyEqualsSource ==
    last.op = "copy"
        => /\ last.ret = "Ok"
           /\ other.cls = rec.cls
           /\ SameContent(other, rec)

\* what update does with one pair of other, by the record's schema: "remove"
\* for an empty value, "raw" when the value as given is valid, "sanitized" when
\* only its sanitized form is valid, "InvalidValue" when neither is, and
\* "InvalidKey" when the key is not one add accepts
PairOutcome(r, p) ==
    IF IsEmptyValue(p[2]) THEN "remove"
    ELSE IF ~IsValidKey(r, p[1]) THEN "InvalidKey"
    ELSE IF IsValidValue(r, p[1], p[2]) THEN "raw"
    ELSE IF /\ SanitizeValue(r, p[1], p[2]) # None
            /\ IsValidValue(r, p[1], SanitizeValue(r, p[1], p[2]))
         THEN "sanitized"
    ELSE "InvalidValue"

PairFails(r, p) == PairOutcome(r, p) \in {"InvalidKey", "InvalidValue"}

\* the pairs of other that update reaches: all of them, or those before the
\* first one that fails
PairsDone(r, mapping) ==
    {i \in 1..Len(mapping) : \A j \in 1..i : ~PairFails(r, mapping[j])}

\* the record after the pair: the key gone, or holding the value as given, or
\* holding its sanitized form
PairApplied(r, after, p) ==
    CASE PairOutcome(r, p) = "remove" -> ~HasKey(after.items, p[1])
      [] PairOutcome(r, p) = "raw" ->
            HasKey(after.items, p[1]) /\ Get(after.items, p[1]) = p[2]
      [] PairOutcome(r, p) = "sanitized" ->
            /\ HasKey(after.items, p[1])
            /\ Get(after.items, p[1]) = SanitizeValue(r, p[1], p[2])
      [] OTHER -> FALSE

\* C11: a step update(other) treats each pair by the two-phase policy with
\* overwrite allowed: a value valid as given is stored unchanged, replacing
\* what the key held; otherwise its sanitized form is stored when that is
\* valid, and update raises InvalidValue when it is not (InvalidKey, from
\* add's key check, when the key is not of the schema); an empty value removes
\* the key; the pairs before a failing one are applied, and every key that
\* other does not name keeps its value.
C11_UpdateTwoPhase ==
    [][(last'.op = "update") =>
         LET mapping == last'.arg
             done == PairsDone(rec, mapping)
         IN  /\ \A i \in done : PairApplied(rec, rec', mapping[i])
             /\ IF Cardinality(done) = Len(mapping)
                THEN last'.ret = "Ok"
                ELSE last'.ret = PairOutcome(rec, mapping[Cardinality(done) + 1])
             /\ \A key \in (DictKeys(rec.items) \cup DictKeys(rec'.items))
                               \ DictKeys(mapping) :
                    /\ HasKey(rec.items, key) /\ HasKey(rec'.items, key)
                    /\ Get(rec'.items, key) = Get(rec.items, key)
             /\ rec'.cls = rec.cls /\ rec'.cfg = rec.cfg]_vars

\* C11 witness: an update that returned after storing one value as given,
\* although sanitizing would have changed it, and one value in its sanitized
\* form, because the value as given was not valid.
C11_Witness ==
    /\ last.op = "update" /\ last.ret = "Ok"
    /\ \E i \in 1..Len(last.arg) :
          /\ PairOutcome(rec, last.arg[i]) = "raw"
          /\ SanitizeValue(rec, last.arg[i][1], last.arg[i][2]) # last.arg[i][2]
          /\ Get(rec.items, last.arg[i][1]) = last.arg[i][2]
    /\ \E i \in 1..Len(last.arg) :
          /\ PairOutcome(rec, last.arg[i]) = "sanitized"
          /\ Get(rec.items, last.arg[i][1]) = SanitizeValue(rec, last.arg[i][1], last.arg[i][2])

=============================================================================
